---- MODULE Spec2Model ----
(***************************************************************************)
(* Model of the backtesting engine of common_valid_strategy:               *)
(*   src/src/backtester.py  (Backtester)                                   *)
(*   src/src/indicators.py  (INDICATOR_STRATEGIES)                         *)
(*                                                                         *)
(* A table (pandas DataFrame) is a record of columns, each column a        *)
(* sequence with one entry per bar.  Bar i of the code (0-based) is entry  *)
(* i+1 of the sequence.  A float is an exact rational <<n, d>> with d > 0  *)
(* in lowest terms; NaN is <<0, 0>>.  Values the code obtains by a         *)
(* fractional power or a square root are kept symbolically (Pow, Root).    *)
(***************************************************************************)
EXTENDS Integers, Sequences, FiniteSets, TLC

VARIABLES
    data,          \* the input table handed to the Backtester
    callables,     \* buy_signal / sell_signal of the current calculate_returns call
    strategy_name, \* the strategy name of the current call
    pc,            \* position of the current call in the code
    result,        \* calculate_returns' local table `result`
    position,      \* calculate_returns' local `position`
    i,             \* calculate_returns' loop index
    metrics,       \* the metrics record returned, or None
    raised,        \* the exception that left the call, or "none"
    config,        \* the Backtester instance: initial_capital, commission, tax
    call,          \* the method the caller invoked, or "none"
    all_metrics,   \* backtest_all_strategies' local dict, in insertion order
    todo,          \* the strategy names backtest_all_strategies has yet to finish
    comparison,    \* the table compare_strategies returned, or None
    calls          \* calls the caller has completed on this table

\* the state of one backtest_strategy run
run == <<data, callables, strategy_name, pc, result, position, i, metrics, raised>>

\* the locals of the run
run_locals == <<callables, strategy_name, result, position, i, metrics>>

\* the instance and the state of the caller
outer == <<config, call, all_metrics, todo, comparison, calls>>

vars == <<run, outer>>

----------------------------------------------------------------------------
(* Bounds of the model *)

\* longest bar sequence explored
MaxBars == 3

\* how many calls return before the last one is made
MaxCalls == 1

\* Close prices explored (all strictly positive, as the data model requires)
Prices == {1, 2, 3}

\* trading days per year assumed by calculate_performance_metrics
TradingDays == 252

\* the bits of precision of a float64, the dtype of every Series the code computes
MantissaBits == 53

----------------------------------------------------------------------------
(* Exact arithmetic on floats-as-rationals, with NaN *)

NaN == <<0, 0>>

IsNaN(x) == x[2] = 0

Abs(n) == IF n < 0 THEN -n ELSE n

RECURSIVE GCD(_, _)
GCD(a, b) == IF b = 0 THEN a ELSE GCD(b, a % b)

\* the rational n/d (d # 0) in lowest terms with a positive denominator
Rat(n, d) ==
    LET g == GCD(Abs(n), Abs(d))
        s == IF d < 0 THEN -1 ELSE 1
    IN  <<(s * n) \div g, (s * d) \div g>>

Num(k) == <<k, 1>>

Zero == Num(0)

One == Num(1)

Add(x, y) == IF IsNaN(x) \/ IsNaN(y) THEN NaN
             ELSE Rat(x[1] * y[2] + y[1] * x[2], x[2] * y[2])

Sub(x, y) == IF IsNaN(x) \/ IsNaN(y) THEN NaN
             ELSE Rat(x[1] * y[2] - y[1] * x[2], x[2] * y[2])

Mul(x, y) == IF IsNaN(x) \/ IsNaN(y) THEN NaN
             ELSE Rat(x[1] * y[1], x[2] * y[2])

\* x / y; the model only divides by non-zero values (0/0 is NaN as in IEEE)
Div(x, y) == IF IsNaN(x) \/ IsNaN(y) \/ y[1] = 0 THEN NaN
             ELSE Rat(x[1] * y[2], x[2] * y[1])

\* comparisons: every comparison against NaN is false
Lt(x, y) == ~IsNaN(x) /\ ~IsNaN(y) /\ x[1] * y[2] < y[1] * x[2]

Le(x, y) == ~IsNaN(x) /\ ~IsNaN(y) /\ x[1] * y[2] <= y[1] * x[2]

Gt(x, y) == Lt(y, x)

Ge(x, y) == Le(y, x)

\* x != y as pandas evaluates it (NaN != anything is true)
Ne(x, y) == IsNaN(x) \/ IsNaN(y) \/ x # y

----------------------------------------------------------------------------
(* The pandas Series operations the Backtester uses *)

\* Series.shift(1): entry 0 is NaN, entry i is the previous entry
shift(s) == [k \in 1..Len(s) |-> IF k = 1 THEN NaN ELSE s[k - 1]]

\* Series.pct_change(): entry 0 is NaN, entry i is s[i]/s[i-1] - 1
pct_change(s) ==
    [k \in 1..Len(s) |-> IF k = 1 THEN NaN ELSE Sub(Div(s[k], s[k - 1]), One)]

\* element-wise product of two aligned Series
SeriesMul(s, t) == [k \in 1..Len(s) |-> Mul(s[k], t[k])]

\* 1 + Series
OnePlus(s) == [k \in 1..Len(s) |-> Add(One, s[k])]

\* Series - 1
MinusOne(s) == [k \in 1..Len(s) |-> Sub(s[k], One)]

\* product of the non-NaN entries among the first k (the empty product is 1)
RECURSIVE ProdUpTo(_, _)
ProdUpTo(s, k) ==
    IF k = 0 THEN One
    ELSE IF IsNaN(s[k]) THEN ProdUpTo(s, k - 1)
    ELSE Mul(ProdUpTo(s, k - 1), s[k])

\* Series.cumprod(): NaN entries are skipped and stay NaN
cumprod(s) == [k \in 1..Len(s) |-> IF IsNaN(s[k]) THEN NaN ELSE ProdUpTo(s, k)]

\* Series.dropna()
RECURSIVE dropna(_)
dropna(s) ==
    IF s = <<>> THEN <<>>
    ELSE IF IsNaN(Head(s)) THEN dropna(Tail(s))
    ELSE <<Head(s)>> \o dropna(Tail(s))

\* an integer column as a float column
AsFloat(s) == [k \in 1..Len(s) |-> Num(s[k])]

----------------------------------------------------------------------------
(* Values *)

None == <<>>

\* lines 15-18: the defaults of Backtester.__init__
DefaultConfig ==
    [initial_capital |-> Num(1000000), commission |-> Rat(1425, 1000000),
     tax |-> Rat(3, 1000)]

Some(x) == <<x>>

\* a callable that returns the given boolean Series whatever the table
SeriesCallable(b, s) == [kind |-> "series", name |-> "", buy |-> b, sell |-> s]

\* the pair of lambdas registered under a strategy name
StrategyCallable(name) == [kind |-> "strategy", name |-> name, buy |-> <<>>, sell |-> <<>>]

NoCallables == [kind |-> "none", name |-> "", buy |-> <<>>, sell |-> <<>>]

\* the columns of a table
Columns(t) == DOMAIN t

----------------------------------------------------------------------------
(* INDICATOR_STRATEGIES *)

StrategyNames == {"RSI", "MACD", "MA_CROSS", "BOLLINGER", "STOCHASTIC"}

\* the indicator columns the lambdas of a strategy read
StrategyColumns(name) ==
    CASE name = "RSI" -> <<"RSI">>
      [] name = "MACD" -> <<"MACD_12_26_9", "MACDs_12_26_9">>
      [] name = "MA_CROSS" -> <<"MA5", "MA20">>
      [] name = "BOLLINGER" -> <<"BBL_20_2.0", "BBU_20_2.0">>
      [] name = "STOCHASTIC" -> <<"STOCHk_14_3_3", "STOCHd_14_3_3">>

Range(s) == {s[k] : k \in DOMAIN s}

\* a lambda raises KeyError when a column it reads is not in the table
RaisesKeyError(name, t) == ~(Range(StrategyColumns(name)) \subseteq Columns(t))

\* Series.notna()
notna(x) == ~IsNaN(x)

\* x > y and previous x <= previous y (a crossing above)
CrossAbove(x, y) ==
    [k \in 1..Len(x) |-> Gt(x[k], y[k]) /\ Le(shift(x)[k], shift(y)[k])]

\* x < y and previous x >= previous y (a crossing below)
CrossBelow(x, y) ==
    [k \in 1..Len(x) |-> Lt(x[k], y[k]) /\ Ge(shift(x)[k], shift(y)[k])]

\* the columns of a table are aligned: one entry per bar
Bars(t) == 1..Len(t["Close"])

\* a variant of line 179 without the test of the previous bar
RSIBuyLevel(t) == [k \in Bars(t) |-> Lt(t["RSI"][k], Num(30))]

\* line 179
RSIBuy(t) ==
    [k \in Bars(t) |-> Lt(t["RSI"][k], Num(30)) /\ Ge(shift(t["RSI"])[k], Num(30))]

\* line 180
RSISell(t) ==
    [k \in Bars(t) |-> Gt(t["RSI"][k], Num(70)) /\ Le(shift(t["RSI"])[k], Num(70))]

\* line 198
BollingerBuy(t) ==
    [k \in Bars(t) |-> notna(t["BBL_20_2.0"][k])
                         /\ Le(Num(t["Close"][k]), t["BBL_20_2.0"][k])]

\* a variant that takes an undefined lower band for a touched one
BollingerBuyIsna(t) ==
    [k \in Bars(t) |-> ~notna(t["BBL_20_2.0"][k])
                         \/ Le(Num(t["Close"][k]), t["BBL_20_2.0"][k])]

\* line 199
BollingerSell(t) ==
    [k \in Bars(t) |-> notna(t["BBU_20_2.0"][k])
                         /\ Ge(Num(t["Close"][k]), t["BBU_20_2.0"][k])]

\* lines 203-204
StochasticBuy(t) ==
    [k \in Bars(t) |-> Lt(t["STOCHk_14_3_3"][k], Num(20))
                         /\ Gt(t["STOCHk_14_3_3"][k], t["STOCHd_14_3_3"][k])]

\* lines 205-206
StochasticSell(t) ==
    [k \in Bars(t) |-> Gt(t["STOCHk_14_3_3"][k], Num(80))
                         /\ Lt(t["STOCHk_14_3_3"][k], t["STOCHd_14_3_3"][k])]

\* the registry with the BOLLINGER buy_signal replaced by its variant
StrategyBuyIsna(name, t) ==
    CASE name = "RSI" -> RSIBuy(t)
      [] name = "MACD" -> CrossAbove(t["MACD_12_26_9"], t["MACDs_12_26_9"])
      [] name = "MA_CROSS" -> CrossAbove(t["MA5"], t["MA20"])
      [] name = "BOLLINGER" -> BollingerBuyIsna(t)
      [] name = "STOCHASTIC" -> StochasticBuy(t)

\* INDICATOR_STRATEGIES[name]['buy_signal'](t)
StrategyBuy(name, t) ==
    CASE name = "RSI" -> RSIBuy(t)
      [] name = "MACD" -> CrossAbove(t["MACD_12_26_9"], t["MACDs_12_26_9"])
      [] name = "MA_CROSS" -> CrossAbove(t["MA5"], t["MA20"])
      [] name = "BOLLINGER" -> BollingerBuy(t)
      [] name = "STOCHASTIC" -> StochasticBuy(t)

\* INDICATOR_STRATEGIES[name]['sell_signal'](t)
StrategySell(name, t) ==
    CASE name = "RSI" -> RSISell(t)
      [] name = "MACD" -> CrossBelow(t["MACD_12_26_9"], t["MACDs_12_26_9"])
      [] name = "MA_CROSS" -> CrossBelow(t["MA5"], t["MA20"])
      [] name = "BOLLINGER" -> BollingerSell(t)
      [] name = "STOCHASTIC" -> StochasticSell(t)

NBars(t) == Len(t["Close"])

\* a column holding the same value at every bar
Const(n, v) == [k \in 1..n |-> v]

----------------------------------------------------------------------------
(* Backtester.calculate_returns *)

\* buy_signal(result) and sell_signal(result)
BuySignalOf(c, t) == IF c.kind = "strategy" THEN StrategyBuy(c.name, t) ELSE c.buy

SellSignalOf(c, t) == IF c.kind = "strategy" THEN StrategySell(c.name, t) ELSE c.sell

\* whether evaluating the callables on the table raises
SignalsRaise(c, t) == c.kind = "strategy" /\ RaisesKeyError(c.name, t)

\* lines 46-55: the copy of the table with the new columns and the signals
WithSignals(t, c) ==
    [Position |-> Const(NBars(t), 0),
     Buy_Signal |-> BuySignalOf(c, t),
     Sell_Signal |-> SellSignalOf(c, t),
     Returns |-> Const(NBars(t), Zero),
     Cumulative_Returns |-> Const(NBars(t), Zero)] @@ t

\* a variant of lines 46-55 that adds the columns to the caller's table
calculate_returns_signals_inplace ==
    /\ pc = "calculate_returns"
    /\ IF SignalsRaise(callables, data)
       THEN /\ raised' = "KeyError"
            /\ pc' = "raised"
            /\ UNCHANGED <<data, result, position, i>>
       ELSE /\ data' = WithSignals(data, callables)
            /\ result' = Some(WithSignals(data, callables))
            /\ position' = 0
            /\ i' = 0
            /\ pc' = "loop"
            /\ UNCHANGED raised
    /\ UNCHANGED <<callables, strategy_name, metrics>>
    /\ UNCHANGED outer

\* lines 46-55: copy the table, add the columns, evaluate the signals
calculate_returns_signals ==
    /\ pc = "calculate_returns"
    /\ IF SignalsRaise(callables, data)
       THEN /\ raised' = "KeyError"
            /\ pc' = "raised"
            /\ UNCHANGED <<result, position, i>>
       ELSE /\ result' = Some(WithSignals(data, callables))
            /\ position' = 0
            /\ i' = 0
            /\ pc' = "loop"
            /\ UNCHANGED raised
    /\ UNCHANGED <<data, callables, strategy_name, metrics>>
    /\ UNCHANGED outer

\* a variant that lets the sell branch run after the buy branch at the same bar
NextPositionTwoIfs(pos, buy, sell) ==
    LET p == IF buy /\ pos = 0 THEN 1 ELSE pos
    IN  IF sell /\ p = 1 THEN 0 ELSE p

\* a variant that leaves a long position without looking at the sell signal
NextPositionNoSellCheck(pos, buy, sell) ==
    IF buy /\ pos = 0 THEN 1
    ELSE IF pos = 1 THEN 0
    ELSE pos

\* lines 60-63: the position after bar k, given the position before it
NextPosition(pos, buy, sell) ==
    IF buy /\ pos = 0 THEN 1
    ELSE IF sell /\ pos = 1 THEN 0
    ELSE pos

\* lines 59-64: one iteration of the loop over the bars
calculate_returns_loop ==
    /\ pc = "loop"
    /\ i < NBars(result[1])
    /\ LET r == result[1]
           p == NextPosition(position, r.Buy_Signal[i + 1], r.Sell_Signal[i + 1])
       IN  /\ position' = p
           /\ result' = Some([r EXCEPT !.Position[i + 1] = p])
    /\ i' = i + 1
    /\ UNCHANGED <<data, callables, strategy_name, pc, metrics, raised>>
    /\ UNCHANGED outer

\* lines 58-64 as a function: the Position column the loop leaves
RECURSIVE PositionsOf(_, _)
PositionsOf(buy, sell) ==
    IF buy = <<>> THEN <<>>
    ELSE LET n == Len(buy)
             before == PositionsOf(SubSeq(buy, 1, n - 1), SubSeq(sell, 1, n - 1))
             prev == IF n = 1 THEN 0 ELSE before[n - 1]
         IN  Append(before, NextPosition(prev, buy[n], sell[n]))

\* Series.shift(-1): entry i is the next entry, the last entry is NaN
shift_back(s) == [k \in 1..Len(s) |-> IF k = Len(s) THEN NaN ELSE s[k + 1]]

\* a variant that gates the return of a bar by the position of the same bar
ReturnsOfSameBar(close, pos) == SeriesMul(pct_change(AsFloat(close)), AsFloat(pos))

\* a variant that gates the return of a bar by the position of the next bar
ReturnsOfNextBar(close, pos) ==
    SeriesMul(pct_change(AsFloat(close)), shift_back(AsFloat(pos)))

\* line 67: Close.pct_change() * Position.shift(1)
ReturnsOf(close, pos) == SeriesMul(pct_change(AsFloat(close)), shift(AsFloat(pos)))

\* line 68: (1 + Returns).cumprod() - 1
CumulativeReturnsOf(returns) == MinusOne(cumprod(OnePlus(returns)))

\* lines 46-70 as a function: the table calculate_returns(t, c) returns
CalculateReturns(t, c) ==
    LET w == WithSignals(t, c)
        pos == PositionsOf(w.Buy_Signal, w.Sell_Signal)
        ret == ReturnsOf(w.Close, pos)
    IN  [w EXCEPT !.Position = pos,
                  !.Returns = ret,
                  !.Cumulative_Returns = CumulativeReturnsOf(ret)]

\* the returns less the instance's commission at every bar that changes position
NetReturnsOf(close, pos) ==
    LET gross == ReturnsOf(close, pos)
    IN  [k \in 1..Len(pos) |->
            IF k = 1 THEN gross[k]
            ELSE Sub(gross[k], Mul(config.commission, Num(Abs(pos[k] - pos[k - 1]))))]

\* a variant of lines 66-70 that applies the commission of the instance
calculate_returns_finish_net ==
    /\ pc = "loop"
    /\ i = NBars(result[1])
    /\ LET r == result[1]
           ret == NetReturnsOf(r.Close, r.Position)
       IN  result' = Some([r EXCEPT !.Returns = ret,
                                    !.Cumulative_Returns = CumulativeReturnsOf(ret)])
    /\ pc' = "returned"
    /\ UNCHANGED <<data, callables, strategy_name, position, i, metrics, raised>>
    /\ UNCHANGED outer

\* lines 66-70: the loop is over; fill Returns and Cumulative_Returns, return
calculate_returns_finish ==
    /\ pc = "loop"
    /\ i = NBars(result[1])
    /\ LET r == result[1]
           ret == ReturnsOf(r.Close, r.Position)
       IN  result' = Some([r EXCEPT !.Returns = ret,
                                    !.Cumulative_Returns = CumulativeReturnsOf(ret)])
    /\ pc' = "returned"
    /\ UNCHANGED <<data, callables, strategy_name, position, i, metrics, raised>>
    /\ UNCHANGED outer

----------------------------------------------------------------------------
(* Backtester.calculate_performance_metrics *)

\* the value scale * (base ^ exp - 1): line 106 and line 134
Pow(base, exp, scale) == [base |-> base, exp |-> exp, scale |-> scale]

\* the value scale * sqrt(radicand): line 109 and line 135
Root(radicand, scale) == [radicand |-> radicand, scale |-> scale]

\* the value num / den, or the literal 0 of line 112's else branch
Quot(num, den) == [zero |-> FALSE, num |-> num, den |-> den]

PowZero == Pow(One, Zero, 0)

RootZero == Root(Zero, 0)

QuotZero == [zero |-> TRUE, num |-> PowZero, den |-> RootZero]

\* x > 0 for a Root (false for NaN, as every comparison with NaN)
RootGtZero(v) == v.scale > 0 /\ Gt(v.radicand, Zero)

RECURSIVE SumSeq(_)
SumSeq(s) == IF s = <<>> THEN Zero ELSE Add(Head(s), SumSeq(Tail(s)))

\* Series.std() squared: the sample variance (ddof = 1), NaN below two entries
Variance(s) ==
    IF Len(s) < 2 THEN NaN
    ELSE LET mean == Div(SumSeq(s), Num(Len(s)))
             sq == [k \in 1..Len(s) |-> Mul(Sub(s[k], mean), Sub(s[k], mean))]
         IN  Div(SumSeq(sq), Num(Len(s) - 1))

\* line 109: returns.std() * np.sqrt(252)
VolatilityOf(returns) == Root(Mul(Variance(returns), Num(TradingDays)), 1)

\* lines 104-106
AnnualizedReturnOf(total_return, trading_days) ==
    IF trading_days > 0
    THEN Pow(Add(One, total_return), Rat(TradingDays, trading_days), 1)
    ELSE PowZero

\* line 112
SharpeRatioOf(annualized_return, volatility) ==
    IF RootGtZero(volatility) THEN Quot(annualized_return, volatility) ELSE QuotZero

MaxRat(x, y) == IF Lt(x, y) THEN y ELSE x

MinRat(x, y) == IF Lt(y, x) THEN y ELSE x

\* Series.expanding().max()
RECURSIVE ExpandingMaxAt(_, _)
ExpandingMaxAt(s, k) == IF k = 1 THEN s[1] ELSE MaxRat(ExpandingMaxAt(s, k - 1), s[k])

expanding_max(s) == [k \in 1..Len(s) |-> ExpandingMaxAt(s, k)]

\* Series.min() of a non-empty Series
RECURSIVE SeriesMinAt(_, _)
SeriesMinAt(s, k) == IF k = 1 THEN s[1] ELSE MinRat(SeriesMinAt(s, k - 1), s[k])

SeriesMin(s) == SeriesMinAt(s, Len(s))

\* line 117: (cumulative - running_max) / running_max
Drawdown(cumulative, running_max) ==
    [k \in 1..Len(cumulative) |->
        Div(Sub(cumulative[k], running_max[k]), running_max[k])]

\* a variant that measures every point against the highest point of the whole curve
MaxDrawdownOfGlobalPeak(returns) ==
    LET cumulative == cumprod(OnePlus(returns))
        peak == ExpandingMaxAt(cumulative, Len(cumulative))
    IN  SeriesMin(Drawdown(cumulative, Const(Len(cumulative), peak)))

\* lines 115-118
MaxDrawdownOf(returns) ==
    LET cumulative == cumprod(OnePlus(returns))
        running_max == expanding_max(cumulative)
    IN  SeriesMin(Drawdown(cumulative, running_max))

\* a variant that keeps the zero returns among the trades
TradesUnfiltered(returns) == returns

\* line 121: returns[returns != 0]
Trades(returns) == SelectSeq(returns, LAMBDA r : Ne(r, Zero))

\* line 123: (trades > 0).sum()
Wins(trades) == Len(SelectSeq(trades, LAMBDA r : Gt(r, Zero)))

\* lines 121-125
WinRateOf(returns) ==
    LET trades == Trades(returns)
    IN  IF Len(trades) > 0 THEN Rat(Wins(trades), Len(trades)) ELSE Zero

\* Position.diff().abs().sum(): entry 0 of diff() is NaN and is skipped
RECURSIVE DiffAbsSum(_, _)
DiffAbsSum(pos, k) ==
    IF k <= 1 THEN 0 ELSE DiffAbsSum(pos, k - 1) + Abs(pos[k] - pos[k - 1])

\* lines 128-129: int(position_changes) truncates
TotalTradesOf(pos) == DiffAbsSum(pos, Len(pos)) \div 2

\* lines 89-98
ZeroedRecord(name) ==
    [strategy |-> name,
     total_return |-> Zero,
     annualized_return |-> PowZero,
     volatility |-> RootZero,
     sharpe_ratio |-> QuotZero,
     max_drawdown |-> Zero,
     win_rate |-> Zero,
     total_trades |-> 0]

\* scaling to a percentage, lines 133-138
Percent(x) == Mul(x, Num(100))

PowPercent(p) == [p EXCEPT !.scale = @ * 100]

RootPercent(v) == [v EXCEPT !.scale = @ * 100]

\* lines 85-140: the record calculate_performance_metrics(t, name) returns
PerformanceMetrics(t, name) ==
    LET returns == dropna(t.Returns)
        cumulative_returns == t.Cumulative_Returns[Len(t.Cumulative_Returns)]
        total_return == cumulative_returns
        annualized_return == AnnualizedReturnOf(total_return, NBars(t))
        volatility == VolatilityOf(returns)
    IN  IF Len(returns) = 0 THEN ZeroedRecord(name)
        ELSE [strategy |-> name,
              total_return |-> Percent(total_return),
              annualized_return |-> PowPercent(annualized_return),
              volatility |-> RootPercent(volatility),
              sharpe_ratio |-> SharpeRatioOf(annualized_return, volatility),
              max_drawdown |-> Percent(MaxDrawdownOf(returns)),
              win_rate |-> Percent(WinRateOf(returns)),
              total_trades |-> TotalTradesOf(t.Position)]

calculate_performance_metrics ==
    /\ pc = "calculate_performance_metrics"
    /\ metrics' = Some(PerformanceMetrics(result[1], strategy_name))
    /\ pc' = "done"
    /\ UNCHANGED <<data, callables, strategy_name, result, position, i, raised>>
    /\ UNCHANGED outer

----------------------------------------------------------------------------
(* Specification: calculate_returns called with arbitrary signal series *)

BarCounts == 1..MaxBars

CloseSeries == UNION {[1..n -> Prices] : n \in BarCounts}

BoolSeries(n) == [1..n -> BOOLEAN]

Init ==
    /\ data \in {[Close |-> close] : close \in CloseSeries}
    /\ callables = NoCallables
    /\ strategy_name = ""
    /\ pc = "idle"
    /\ result = None
    /\ position = 0
    /\ i = 0
    /\ metrics = None
    /\ raised = "none"
    /\ config = DefaultConfig
    /\ call = "none"
    /\ all_metrics = <<>>
    /\ todo = <<>>
    /\ comparison = None
    /\ calls = 0

\* a caller invokes calculate_returns(data, buy_signal, sell_signal)
call_calculate_returns ==
    /\ pc = "idle"
    /\ \E b \in BoolSeries(NBars(data)), s \in BoolSeries(NBars(data)) :
          callables' = SeriesCallable(b, s)
    /\ pc' = "calculate_returns"
    /\ UNCHANGED <<data, strategy_name, result, position, i, metrics, raised>>
    /\ UNCHANGED outer

\* the caller hands the returned table to calculate_performance_metrics
call_calculate_performance_metrics ==
    /\ pc = "returned"
    /\ strategy_name' = "CUSTOM"
    /\ pc' = "calculate_performance_metrics"
    /\ UNCHANGED <<data, callables, result, position, i, metrics, raised>>
    /\ UNCHANGED outer

Next ==
    \/ call_calculate_returns
    \/ calculate_returns_signals
    \/ calculate_returns_loop
    \/ calculate_returns_finish
    \/ call_calculate_performance_metrics
    \/ calculate_performance_metrics

Spec == Init /\ [][Next]_vars

----------------------------------------------------------------------------
(* Specification: backtest_strategy on a table with indicator columns *)

\* the values one bar holds in the columns of a strategy, one tuple per choice
Cells(name) ==
    CASE name = "RSI" -> {<<NaN>>, <<Num(20)>>, <<Num(30)>>, <<Num(70)>>, <<Num(80)>>}
      [] name = "MACD" -> {<<NaN, NaN>>, <<Num(0), Num(1)>>, <<Num(1), Num(0)>>,
                           <<Num(1), Num(1)>>}
      [] name = "MA_CROSS" -> {<<NaN, NaN>>, <<Num(1), Num(2)>>, <<Num(2), Num(1)>>,
                               <<Num(2), Num(2)>>}
      [] name = "BOLLINGER" -> {<<NaN, NaN>>, <<Num(0), Num(9)>>, <<Num(9), Num(9)>>,
                                <<Num(0), Num(0)>>, <<Num(2), Num(2)>>}
      [] name = "STOCHASTIC" -> {<<NaN, NaN>>, <<Num(10), Num(5)>>, <<Num(10), Num(15)>>,
                                 <<Num(90), Num(95)>>, <<Num(90), Num(85)>>}

\* price paths of n bars: rising, falling, flat, alternating
ClosePaths(n) ==
    {[k \in 1..n |-> k], [k \in 1..n |-> n + 1 - k], [k \in 1..n |-> 2],
     [k \in 1..n |-> IF k % 2 = 1 THEN 2 ELSE 1]}

\* every indicator column a registered strategy reads
IndicatorColumns == UNION {Range(StrategyColumns(name)) : name \in StrategyNames}

\* the place of a column among the columns of its strategy
ColumnIndex(col) ==
    IF col \in {StrategyColumns(name)[1] : name \in StrategyNames} THEN 1 ELSE 2

\* a table holding only the columns of strategy `focus`, bar k holding cells[k]
FocusTable(close, focus, cells) ==
    [col \in {"Close"} \cup Range(StrategyColumns(focus)) |->
        IF col = "Close" THEN close
        ELSE [k \in DOMAIN close |-> cells[k][ColumnIndex(col)]]]

\* a table in which the columns of strategy `focus` are absent and every other
\* indicator column is undefined at every bar (the warm-up is not over)
UndefinedTable(close, focus) ==
    [col \in {"Close"} \cup (IndicatorColumns \ Range(StrategyColumns(focus))) |->
        IF col = "Close" THEN close ELSE Const(Len(close), NaN)]

\* the tables of n bars over the given Close series
TablesOver(closes, n) ==
    UNION {UNION {
        {FocusTable(close, focus, cells) : cells \in [1..n -> Cells(focus)]}
        \cup {UndefinedTable(close, focus)}
        : close \in closes} : focus \in StrategyNames}

\* the tables of n bars explored
IndicatorTables(n) == TablesOver(ClosePaths(n), n)

InitStrategies ==
    /\ \E n \in BarCounts : data \in IndicatorTables(n)
    /\ callables = NoCallables
    /\ strategy_name = ""
    /\ pc = "idle"
    /\ result = None
    /\ position = 0
    /\ i = 0
    /\ metrics = None
    /\ raised = "none"
    /\ config = DefaultConfig
    /\ call = "none"
    /\ all_metrics = <<>>
    /\ todo = <<>>
    /\ comparison = None
    /\ calls = 0

\* a variant that falls back to the first strategy when the name is unknown
backtest_strategy_fallback ==
    /\ pc = "idle"
    /\ \E name \in StrategyNames \cup {"UNKNOWN"} :
          /\ strategy_name' = name
          /\ callables' = StrategyCallable(IF name \in StrategyNames THEN name ELSE "RSI")
          /\ pc' = "calculate_returns"
    /\ UNCHANGED <<data, result, position, i, metrics, raised>>
    /\ call' = "backtest_strategy"
    /\ UNCHANGED <<config, all_metrics, todo, comparison, calls>>

\* lines 155-163: backtest_strategy(data, name) looks the strategy up
backtest_strategy ==
    /\ pc = "idle"
    /\ \E name \in StrategyNames \cup {"UNKNOWN"} :
          /\ strategy_name' = name
          /\ IF name \notin StrategyNames
             THEN /\ raised' = "ValueError"
                  /\ pc' = "raised"
                  /\ UNCHANGED callables
             ELSE /\ callables' = StrategyCallable(name)
                  /\ pc' = "calculate_returns"
                  /\ UNCHANGED raised
    /\ UNCHANGED <<data, result, position, i, metrics>>
    /\ call' = "backtest_strategy"
    /\ UNCHANGED <<config, all_metrics, todo, comparison, calls>>

\* line 166: the table calculate_returns returned goes to the metrics
backtest_strategy_metrics ==
    /\ pc = "returned"
    /\ pc' = "calculate_performance_metrics"
    /\ UNCHANGED <<data, callables, strategy_name, result, position, i, metrics, raised>>
    /\ UNCHANGED outer

NextStrategies ==
    \/ backtest_strategy
    \/ calculate_returns_signals
    \/ calculate_returns_loop
    \/ calculate_returns_finish
    \/ backtest_strategy_metrics
    \/ calculate_performance_metrics

SpecStrategies == InitStrategies /\ [][NextStrategies]_vars

----------------------------------------------------------------------------
(* Specification: backtest_strategy on Backtester instances that differ in
   initial_capital, commission and tax *)

\* another instance: Backtester(500000, 0.01, 0.0)
OtherConfig ==
    [initial_capital |-> Num(500000), commission |-> Rat(1, 100), tax |-> Zero]

Configs == {DefaultConfig, OtherConfig}

\* price paths of n bars on which a held position gains or loses
MovingPaths(n) ==
    {[k \in 1..n |-> n + 1 - k], [k \in 1..n |-> IF k % 2 = 1 THEN 2 ELSE 1]}

InitConfig ==
    /\ \E n \in BarCounts : data \in TablesOver(MovingPaths(n), n)
    /\ config \in Configs
    /\ callables = NoCallables
    /\ strategy_name = ""
    /\ pc = "idle"
    /\ result = None
    /\ position = 0
    /\ i = 0
    /\ metrics = None
    /\ raised = "none"
    /\ call = "none"
    /\ all_metrics = <<>>
    /\ todo = <<>>
    /\ comparison = None
    /\ calls = 0

SpecConfig == InitConfig /\ [][NextStrategies]_vars

----------------------------------------------------------------------------
(* Specification: sequences of backtest_strategy and backtest_all_strategies
   calls on one table, each batch followed by compare_strategies *)

\* INDICATOR_STRATEGIES.keys(): the names in the order of the dict literal
StrategyOrder == <<"RSI", "MACD", "MA_CROSS", "BOLLINGER", "STOCHASTIC">>

\* dict[key] = value on a dict kept as a sequence of <<key, value>> pairs
DictSet(d, key, value) ==
    IF \E j \in DOMAIN d : d[j][1] = key
    THEN [j \in DOMAIN d |-> IF d[j][1] = key THEN <<key, value>> ELSE d[j]]
    ELSE Append(d, <<key, value>>)

\* line 180: all_metrics = {}
backtest_all_strategies ==
    /\ pc = "idle"
    /\ call' = "backtest_all_strategies"
    /\ all_metrics' = <<>>
    /\ todo' = StrategyOrder
    /\ pc' = "for"
    /\ UNCHANGED run_locals
    /\ UNCHANGED <<data, raised, config, comparison, calls>>

\* lines 182-184 and 155-163: the next name of the registry goes to
\* backtest_strategy, whose lookup succeeds because the name is a key
backtest_all_strategies_try ==
    /\ pc = "for"
    /\ todo # <<>>
    /\ strategy_name' = Head(todo)
    /\ callables' = StrategyCallable(Head(todo))
    /\ result' = None
    /\ metrics' = None
    /\ position' = 0
    /\ i' = 0
    /\ pc' = "calculate_returns"
    /\ UNCHANGED <<data, raised>>
    /\ UNCHANGED outer

\* line 185: all_metrics[strategy_name] = metrics
backtest_all_strategies_store ==
    /\ pc = "done"
    /\ call = "backtest_all_strategies"
    /\ all_metrics' = DictSet(all_metrics, strategy_name, metrics)
    /\ todo' = Tail(todo)
    /\ pc' = "for"
    /\ UNCHANGED run_locals
    /\ UNCHANGED <<data, raised, config, call, comparison, calls>>

\* a variant of the handler that swallows the exception and stores nothing
backtest_all_strategies_except_skip ==
    /\ pc = "raised"
    /\ call = "backtest_all_strategies"
    /\ raised' = "none"
    /\ todo' = Tail(todo)
    /\ pc' = "for"
    /\ UNCHANGED <<data, callables, strategy_name, result, position, i, metrics>>
    /\ UNCHANGED <<config, call, all_metrics, comparison, calls>>

\* lines 186-188: except Exception: all_metrics[strategy_name] = None
backtest_all_strategies_except ==
    /\ pc = "raised"
    /\ call = "backtest_all_strategies"
    /\ raised' = "none"
    /\ all_metrics' = DictSet(all_metrics, strategy_name, None)
    /\ todo' = Tail(todo)
    /\ pc' = "for"
    /\ UNCHANGED <<data, callables, strategy_name, result, position, i, metrics>>
    /\ UNCHANGED <<config, call, comparison, calls>>

\* line 190: the loop is over, return all_metrics
backtest_all_strategies_return ==
    /\ pc = "for"
    /\ todo = <<>>
    /\ pc' = "all_returned"
    /\ UNCHANGED run_locals
    /\ UNCHANGED <<data, raised>>
    /\ UNCHANGED outer

\* line 202: the items of the dict whose value is not None, in order
RECURSIVE ValidMetrics(_)
ValidMetrics(d) ==
    IF d = <<>> THEN <<>>
    ELSE LET rest == ValidMetrics(Tail(d))
         IN  IF Head(d)[2] # None THEN <<Head(d)>> \o rest ELSE rest

\* lines 204-208: one row per valid strategy, holding its record; the empty
\* frame when nothing is valid
DataFrameT(valid) == [j \in DOMAIN valid |-> <<valid[j][1], valid[j][2][1]>>]

\* lines 202-209: compare_strategies(all_metrics), as main.py calls it
compare_strategies ==
    /\ pc = "all_returned"
    /\ comparison' = Some(DataFrameT(ValidMetrics(all_metrics)))
    /\ pc' = "compared"
    /\ UNCHANGED run_locals
    /\ UNCHANGED <<data, raised>>
    /\ UNCHANGED <<config, call, all_metrics, todo, calls>>

\* the call is over: its locals are gone, the table and the instance remain
return_to_caller ==
    /\ \/ pc \in {"done", "raised"} /\ call = "backtest_strategy"
       \/ pc = "compared"
    /\ calls < MaxCalls
    /\ calls' = calls + 1
    /\ pc' = "idle"
    /\ callables' = NoCallables
    /\ strategy_name' = ""
    /\ result' = None
    /\ position' = 0
    /\ i' = 0
    /\ metrics' = None
    /\ raised' = "none"
    /\ call' = "none"
    /\ all_metrics' = <<>>
    /\ todo' = <<>>
    /\ comparison' = None
    /\ UNCHANGED <<data, config>>

\* the cells the columns of a strategy run through, bar after bar
Pattern(name) ==
    CASE name = "RSI" -> <<<<Num(70)>>, <<Num(20)>>, <<Num(80)>>, <<Num(30)>>>>
      [] name = "MACD" -> <<<<Num(0), Num(1)>>, <<Num(1), Num(0)>>, <<Num(0), Num(1)>>,
                            <<Num(1), Num(1)>>>>
      [] name = "MA_CROSS" -> <<<<Num(2), Num(1)>>, <<Num(1), Num(2)>>, <<Num(2), Num(1)>>,
                                <<Num(2), Num(2)>>>>
      [] name = "BOLLINGER" -> <<<<Num(9), Num(9)>>, <<Num(0), Num(0)>>, <<Num(0), Num(9)>>,
                                 <<NaN, NaN>>>>
      [] name = "STOCHASTIC" -> <<<<Num(10), Num(15)>>, <<Num(10), Num(5)>>,
                                  <<Num(90), Num(95)>>, <<Num(90), Num(85)>>>>

\* the bar of the pattern at which a table starts
Phases == {0, 1}

\* the strategy that reads an indicator column
StrategyOf(col) == CHOOSE name \in StrategyNames : col \in Range(StrategyColumns(name))

\* a table without the columns of the strategies in `absent`; the columns of
\* every other strategy run through its pattern from bar `phase` on
PatternTable(close, absent, phase) ==
    [col \in {"Close"}
             \cup (IndicatorColumns \ UNION {Range(StrategyColumns(a)) : a \in absent}) |->
        IF col = "Close" THEN close
        ELSE LET pat == Pattern(StrategyOf(col))
             IN  [k \in DOMAIN close |->
                     pat[((k - 1 + phase) % Len(pat)) + 1][ColumnIndex(col)]]]

\* the tables of n bars: any subset of the strategies lacks its columns
PatternTables(n) ==
    {PatternTable(close, absent, phase) :
        close \in MovingPaths(n), absent \in SUBSET StrategyNames, phase \in Phases}

InitAll ==
    /\ \E n \in BarCounts : data \in PatternTables(n)
    /\ callables = NoCallables
    /\ strategy_name = ""
    /\ pc = "idle"
    /\ result = None
    /\ position = 0
    /\ i = 0
    /\ metrics = None
    /\ raised = "none"
    /\ config = DefaultConfig
    /\ call = "none"
    /\ all_metrics = <<>>
    /\ todo = <<>>
    /\ comparison = None
    /\ calls = 0

NextAll ==
    \/ backtest_strategy
    \/ backtest_all_strategies
    \/ backtest_all_strategies_try
    \/ calculate_returns_signals
    \/ calculate_returns_loop
    \/ calculate_returns_finish
    \/ backtest_strategy_metrics
    \/ calculate_performance_metrics
    \/ backtest_all_strategies_store
    \/ backtest_all_strategies_except
    \/ backtest_all_strategies_return
    \/ compare_strategies
    \/ return_to_caller

SpecAll == InitAll /\ [][NextAll]_vars

----------------------------------------------------------------------------
(* Specification: calculate_returns in float64 arithmetic, on prices that are
   powers of two.  Every value lines 67-68 compute from such prices is 0, a
   power of two, a power of two less one, -1 or NaN, and is kept exactly; the
   one rounding that occurs is that of x - 1, to the 53-bit significand. *)

F64NaN == [kind |-> "nan", e |-> 0]

F64Zero == [kind |-> "zero", e |-> 0]

F64MinusOne == [kind |-> "minus_one", e |-> 0]

\* the float 2^e
F64Pow2(e) == [kind |-> "pow2", e |-> e]

\* the float 2^e - 1, for e # 0 within the significand
F64Pow2Minus1(e) == [kind |-> "pow2_minus_1", e |-> e]

\* x / y of two powers of two: exact
F64Div(x, y) == F64Pow2(x.e - y.e)

\* x - 1 rounded to nearest, ties to even: 2^e - 1 is -1.0 from e = -54 down
\* and 2^e from e = 54 up
F64Sub1(x) ==
    CASE x.kind = "nan" -> F64NaN
      [] x.kind = "zero" -> F64MinusOne
      [] x.kind = "pow2" ->
            IF x.e = 0 THEN F64Zero
            ELSE IF x.e < -MantissaBits THEN F64MinusOne
            ELSE IF x.e > MantissaBits THEN x
            ELSE F64Pow2Minus1(x.e)

\* 1 + x: exact for every value F64Sub1 returns
F64Add1(x) ==
    CASE x.kind = "nan" -> F64NaN
      [] x.kind = "zero" -> F64Pow2(0)
      [] x.kind = "minus_one" -> F64Zero
      [] x.kind = "pow2_minus_1" -> F64Pow2(x.e)
      [] x.kind = "pow2" -> x

\* x * p for a position p (0.0 or 1.0; NaN where shift(1) has no entry)
F64MulPosition(x, p) ==
    IF x.kind = "nan" THEN F64NaN
    ELSE IF p = 1 THEN x
    ELSE F64Zero

\* x * y of two values that are 0 or a power of two
F64Mul(x, y) ==
    IF x.kind = "nan" \/ y.kind = "nan" THEN F64NaN
    ELSE IF x.kind = "zero" \/ y.kind = "zero" THEN F64Zero
    ELSE F64Pow2(x.e + y.e)

\* x > 0
F64Positive(x) == x.kind = "pow2" \/ (x.kind = "pow2_minus_1" /\ x.e > 0)

\* line 67, Close.pct_change(): Close / Close.shift(1) - 1
pct_change_f64(close) ==
    [k \in 1..Len(close) |->
        IF k = 1 THEN F64NaN ELSE F64Sub1(F64Div(close[k], close[k - 1]))]

\* line 67: Close.pct_change() * Position.shift(1)
ReturnsOfF64(close, pos) ==
    [k \in 1..Len(close) |->
        IF k = 1 THEN F64NaN
        ELSE F64MulPosition(pct_change_f64(close)[k], pos[k - 1])]

\* Series.cumprod(): NaN entries are skipped and stay NaN
RECURSIVE ProdUpToF64(_, _)
ProdUpToF64(s, k) ==
    IF k = 0 THEN F64Pow2(0)
    ELSE IF s[k].kind = "nan" THEN ProdUpToF64(s, k - 1)
    ELSE F64Mul(ProdUpToF64(s, k - 1), s[k])

cumprod_f64(s) ==
    [k \in 1..Len(s) |-> IF s[k].kind = "nan" THEN F64NaN ELSE ProdUpToF64(s, k)]

\* line 68, first half: (1 + Returns).cumprod(), the compounded equity
EquityOfF64(returns) == cumprod_f64([k \in 1..Len(returns) |-> F64Add1(returns[k])])

\* line 68: (1 + Returns).cumprod() - 1
CumulativeReturnsOfF64(returns) ==
    LET equity == EquityOfF64(returns)
    IN  [k \in 1..Len(returns) |-> F64Sub1(equity[k])]

\* lines 66-70 in float64: fill Returns and Cumulative_Returns, return
calculate_returns_finish_f64 ==
    /\ pc = "loop"
    /\ i = NBars(result[1])
    /\ LET r == result[1]
           ret == ReturnsOfF64(r.Close, r.Position)
       IN  result' = Some([r EXCEPT !.Returns = ret,
                                    !.Cumulative_Returns = CumulativeReturnsOfF64(ret)])
    /\ pc' = "returned"
    /\ UNCHANGED <<data, callables, strategy_name, position, i, metrics, raised>>
    /\ UNCHANGED outer

\* line 101: total_return = Cumulative_Returns.iloc[-1]
TotalReturnF64(t) == t.Cumulative_Returns[Len(t.Cumulative_Returns)]

\* line 106: the base 1 + total_return of the fractional power
AnnualizedBaseF64(t) == F64Add1(TotalReturnF64(t))

\* the larger of two values that are 0 or a power of two
F64Max(x, y) ==
    IF x.kind = "zero" THEN y
    ELSE IF y.kind = "zero" THEN x
    ELSE IF x.e < y.e THEN y ELSE x

\* lines 115-116: running_max of (1 + returns).cumprod(), returns without NaN
RECURSIVE RunningMaxAtF64(_, _)
RunningMaxAtF64(cumulative, k) ==
    IF k = 1 THEN cumulative[1]
    ELSE F64Max(RunningMaxAtF64(cumulative, k - 1), cumulative[k])

RunningMaxF64(t) ==
    LET returns == SelectSeq(t.Returns, LAMBDA r : r.kind # "nan")
        cumulative == EquityOfF64(returns)
    IN  [k \in 1..Len(cumulative) |-> RunningMaxAtF64(cumulative, k)]

\* the exponents of the prices explored: 1, 2^27 and 2^54
Exponents == {0, 27, 54}

InitFloat64 ==
    /\ \E n \in BarCounts :
          data \in {[Close |-> [k \in 1..n |-> F64Pow2(es[k])]] : es \in [1..n -> Exponents]}
    /\ callables = NoCallables
    /\ strategy_name = ""
    /\ pc = "idle"
    /\ result = None
    /\ position = 0
    /\ i = 0
    /\ metrics = None
    /\ raised = "none"
    /\ config = DefaultConfig
    /\ call = "none"
    /\ all_metrics = <<>>
    /\ todo = <<>>
    /\ comparison = None
    /\ calls = 0

NextFloat64 ==
    \/ call_calculate_returns
    \/ calculate_returns_signals
    \/ calculate_returns_loop
    \/ calculate_returns_finish_f64

SpecFloat64 == InitFloat64 /\ [][NextFloat64]_vars

----------------------------------------------------------------------------
(* Properties of calculate_returns *)

\* the table of the current call, once it exists
HasResult == result # None

R == result[1]

\* the bars the loop has recorded so far
Recorded == 1..i

\* the state before bar k: Flat before bar 0, else the position recorded at k-1
Before(pos, k) == IF k = 1 THEN 0 ELSE pos[k - 1]

Returned == pc \in {"returned", "calculate_performance_metrics", "done"}

\* C1: every recorded Position is 0 (Flat) or 1 (Long), the state before bar 0
\* is Flat, and the position differs from the previous bar's only where the
\* matching signal is true: 0->1 needs Buy_Signal, 1->0 needs Sell_Signal.
C1_PositionFollowsSignals ==
    /\ (pc = "loop" /\ i = 0) => position = 0
    /\ HasResult =>
         /\ \A k \in 1..NBars(R) : R.Position[k] \in {0, 1}
         /\ i > 0 => position = R.Position[i]
         /\ \A k \in Recorded :
              /\ (Before(R.Position, k) = 0 /\ R.Position[k] = 1) => R.Buy_Signal[k]
              /\ (Before(R.Position, k) = 1 /\ R.Position[k] = 0) => R.Sell_Signal[k]

\* a finished run that entered on a buy signal and left on a sell signal
C1_Witness ==
    /\ Returned
    /\ \E k \in 1..NBars(R) : Before(R.Position, k) = 0 /\ R.Position[k] = 1
    /\ \E k \in 1..NBars(R) : Before(R.Position, k) = 1 /\ R.Position[k] = 0
    /\ \E k \in 1..NBars(R) : R.Buy_Signal[k] /\ Before(R.Position, k) = 1
    /\ \E k \in 1..NBars(R) : R.Sell_Signal[k] /\ R.Position[k] = 0
                                /\ Before(R.Position, k) = 0

\* C2: when buy and sell are both true at a bar, the state held before the bar
\* decides: Flat becomes Long (the sell does not return it to Flat), Long
\* becomes Flat; exactly one transition is applied at that bar.
C2_SimultaneousSignals ==
    HasResult =>
      \A k \in Recorded :
        (R.Buy_Signal[k] /\ R.Sell_Signal[k]) =>
           /\ Before(R.Position, k) = 0 => R.Position[k] = 1
           /\ Before(R.Position, k) = 1 => R.Position[k] = 0

\* a finished run with both signals true at a bar entered Flat and at one entered Long
C2_Witness ==
    /\ Returned
    /\ \E k \in 1..NBars(R) :
          R.Buy_Signal[k] /\ R.Sell_Signal[k] /\ Before(R.Position, k) = 0
    /\ \E k \in 1..NBars(R) :
          R.Buy_Signal[k] /\ R.Sell_Signal[k] /\ Before(R.Position, k) = 1

\* the fractional price change of bar k >= 2
PriceChange(close, k) == Rat(close[k] - close[k - 1], close[k - 1])

\* C3: Returns at bar 0 is undefined; at every bar i >= 1 it is
\* (Close[i]/Close[i-1] - 1) times the position recorded at bar i-1, so it is 0
\* after a bar that ended Flat (the entry bar included) and the exit bar still
\* realises the price change.
C3_ReturnsUsePreviousPosition ==
    Returned =>
      /\ IsNaN(R.Returns[1])
      /\ \A k \in 2..NBars(R) :
           /\ R.Returns[k] = Mul(PriceChange(R.Close, k), Num(R.Position[k - 1]))
           /\ R.Position[k - 1] = 0 => R.Returns[k] = Zero
           /\ (R.Position[k - 1] = 1 /\ R.Position[k] = 0)
                 => R.Returns[k] = PriceChange(R.Close, k)

\* a finished run with an entry bar and an exit bar at which the price moved
C3_Witness ==
    /\ Returned
    /\ \E k \in 2..NBars(R) :
          R.Position[k - 1] = 0 /\ R.Position[k] = 1 /\ R.Close[k] # R.Close[k - 1]
    /\ \E k \in 2..NBars(R) :
          R.Position[k - 1] = 1 /\ R.Position[k] = 0 /\ R.Returns[k] # Zero

\* C4: no look-ahead.  The positions at bars 0..j and the returns at bars 1..j
\* are those calculate_returns computes from bars 0..j alone, so two inputs
\* that agree on bars 0..j agree there whatever follows bar j.
C4_NoLookAhead ==
    Returned =>
      \A j \in 1..NBars(R) :
        LET pos == PositionsOf(SubSeq(R.Buy_Signal, 1, j), SubSeq(R.Sell_Signal, 1, j))
        IN  /\ SubSeq(R.Position, 1, j) = pos
            /\ SubSeq(R.Returns, 1, j) = ReturnsOf(SubSeq(R.Close, 1, j), pos)

\* a finished run whose signals and price after bar 1 differ from those of bar 1
\* and whose position changes after bar 1
C4_Witness ==
    /\ Returned
    /\ NBars(R) >= 3
    /\ R.Position[2] # R.Position[3]
    /\ R.Close[2] # R.Close[3]
    /\ R.Returns[2] # Zero
    /\ R.Returns[3] # Zero

----------------------------------------------------------------------------
(* Properties of calculate_performance_metrics *)

Done == pc = "done"

M == metrics[1]

\* the bars with a defined return
ReturnBars == 2..NBars(R)

\* complete Flat->Long->Flat round trips made from the initial Flat state: one
\* per exit
RoundTrips(pos) ==
    Cardinality({k \in 1..Len(pos) : Before(pos, k) = 1 /\ pos[k] = 0})

\* C5: total_trades is the number of complete Flat->Long->Flat round trips made
\* from the initial Flat state, wherever the first entry occurs (an entry at
\* bar 0 included) and whether or not a further entry is left open.
C5_TotalTradesCountsRoundTrips ==
    Done => M.total_trades = RoundTrips(R.Position)

C7_WinRate ==
    Done =>
      LET wins == Cardinality({k \in ReturnBars : Gt(R.Returns[k], Zero)})
          nonzero == Cardinality({k \in ReturnBars : R.Returns[k] # Zero})
      IN  /\ Ge(M.win_rate, Zero)
          /\ Le(M.win_rate, Num(100))
          /\ nonzero > 0 => M.win_rate = Rat(100 * wins, nonzero)
          /\ wins = 0 => M.win_rate = Zero

\* a run with a winning bar and a zero-return bar, the latter not counted
C7_Witness ==
    /\ Done
    /\ M.win_rate = Num(100)
    /\ \E k \in ReturnBars : R.Returns[k] = Zero

\* a Pow, Root or Quot that stands for a number (not NaN)
PowDefined(p) == ~IsNaN(p.base) /\ ~IsNaN(p.exp) /\ Gt(p.base, Zero)

RootDefined(v) == ~IsNaN(v.radicand) /\ Ge(v.radicand, Zero)

QuotDefined(q) == q.zero \/ (PowDefined(q.num) /\ RootDefined(q.den) /\ RootGtZero(q.den))

\* C8: degenerate data yields no undefined metric: every numeric field of the
\* record is a defined number; one bar gives the all-zero record; two bars, zero
\* variance or all-zero returns give defined neutral volatility and sharpe_ratio.
C8_MetricsAlwaysDefined ==
    Done =>
      /\ ~IsNaN(M.total_return)
      /\ PowDefined(M.annualized_return)
      /\ RootDefined(M.volatility)
      /\ QuotDefined(M.sharpe_ratio)
      /\ ~IsNaN(M.max_drawdown)
      /\ ~IsNaN(M.win_rate)
      /\ M.total_trades >= 0
      /\ NBars(R) = 1 => M = ZeroedRecord(strategy_name)
      /\ (\A k \in ReturnBars : R.Returns[k] = Zero)
            => (M.volatility.radicand = Zero /\ M.sharpe_ratio.zero)

----------------------------------------------------------------------------
(* Properties of backtest_strategy *)

\* every indicator column the strategy reads is in the table, undefined at every bar
ColumnsUndefined(name, t) ==
    /\ ~RaisesKeyError(name, t)
    /\ \A col \in Range(StrategyColumns(name)) : \A k \in Bars(t) : IsNaN(t[col][k])

\* C9: if no buy signal is ever true the run is a zeroed outcome: every
\* position Flat, every return at bars >= 1 zero, total_return, max_drawdown,
\* win_rate and total_trades 0.  A registered strategy whose indicator columns
\* are present but undefined at every bar has all its signals false and
\* raises no error.
C9_NoBuySignal ==
    /\ (Done /\ \A k \in Bars(R) : ~R.Buy_Signal[k]) =>
          /\ \A k \in Bars(R) : R.Position[k] = 0
          /\ \A k \in ReturnBars : R.Returns[k] = Zero
          /\ M.total_return = Zero
          /\ M.max_drawdown = Zero
          /\ M.win_rate = Zero
          /\ M.total_trades = 0
    /\ (strategy_name \in StrategyNames /\ ColumnsUndefined(strategy_name, data)
          /\ pc \notin {"idle", "calculate_returns"}) =>
          /\ raised = "none"
          /\ HasResult
          /\ \A k \in Bars(R) : ~R.Buy_Signal[k] /\ ~R.Sell_Signal[k]

\* a finished run of a strategy whose columns are undefined, over moving prices
C9_Witness ==
    /\ Done
    /\ strategy_name = "BOLLINGER"
    /\ ColumnsUndefined(strategy_name, data)
    /\ NBars(R) >= 3
    /\ R.Close[2] # R.Close[3]

\* C10: backtest_strategy with a name that is not registered raises ValueError
\* at once: no signal, position, return, result table or metrics record is
\* produced, and the input table is unchanged.
C10_UnknownStrategyRaises ==
    [][strategy_name' \notin StrategyNames =>
          /\ pc' = "raised"
          /\ raised' = "ValueError"
          /\ callables' = NoCallables
          /\ result' = None
          /\ metrics' = None
          /\ data' = data]_vars

\* the call with an unknown name has raised
C10_Witness ==
    /\ strategy_name = "UNKNOWN"
    /\ pc = "raised"
    /\ raised = "ValueError"

----------------------------------------------------------------------------
(* Properties of INDICATOR_STRATEGIES *)

EdgeStrategies == {"RSI", "MACD", "MA_CROSS"}

LevelStrategies == {"BOLLINGER", "STOCHASTIC"}

\* the first and second indicator column of a strategy
Col1(name, t) == t[StrategyColumns(name)[1]]

Col2(name, t) == t[StrategyColumns(name)[2]]

\* the buy condition of a strategy at bar k, read from the table
BuyCondition(name, t, k) ==
    CASE name = "RSI" -> Lt(Col1(name, t)[k], Num(30))
      [] name \in {"MACD", "MA_CROSS"} -> Gt(Col1(name, t)[k], Col2(name, t)[k])
      [] name = "BOLLINGER" ->
           ~IsNaN(Col1(name, t)[k]) /\ Le(Num(t["Close"][k]), Col1(name, t)[k])
      [] name = "STOCHASTIC" ->
           Lt(Col1(name, t)[k], Num(20)) /\ Gt(Col1(name, t)[k], Col2(name, t)[k])

\* the sell condition of a strategy at bar k, read from the table
SellCondition(name, t, k) ==
    CASE name = "RSI" -> Gt(Col1(name, t)[k], Num(70))
      [] name \in {"MACD", "MA_CROSS"} -> Lt(Col1(name, t)[k], Col2(name, t)[k])
      [] name = "BOLLINGER" ->
           ~IsNaN(Col2(name, t)[k]) /\ Ge(Num(t["Close"][k]), Col2(name, t)[k])
      [] name = "STOCHASTIC" ->
           Gt(Col1(name, t)[k], Num(80)) /\ Lt(Col1(name, t)[k], Col2(name, t)[k])

\* the opposite-or-equal of the buy condition of an edge-triggered strategy
BuyOpposite(name, t, k) ==
    IF name = "RSI" THEN Ge(Col1(name, t)[k], Num(30))
    ELSE Le(Col1(name, t)[k], Col2(name, t)[k])

\* the opposite-or-equal of the sell condition of an edge-triggered strategy
SellOpposite(name, t, k) ==
    IF name = "RSI" THEN Le(Col1(name, t)[k], Num(70))
    ELSE Ge(Col1(name, t)[k], Col2(name, t)[k])

\* the signals of a registered strategy have been evaluated
StrategySignals == HasResult /\ callables.kind = "strategy"

\* C12: RSI, MACD and MA_CROSS are edge-triggered: a signal is true at bar i
\* only if the crossing condition holds at i and the opposite-or-equal held at
\* i-1, so it is false at bar 0, never true on two consecutive bars, and buy
\* and sell are never both true at a bar.  BOLLINGER and STOCHASTIC are
\* level-triggered: the signal is true exactly where the level condition
\* holds, whatever the previous bar.
C12_EdgeAndLevelSignals ==
    StrategySignals =>
      LET name == strategy_name
          n == NBars(R)
      IN  /\ name \in EdgeStrategies =>
               /\ \A k \in 1..n :
                    /\ R.Buy_Signal[k] =>
                         (k > 1 /\ BuyCondition(name, data, k)
                                /\ BuyOpposite(name, data, k - 1))
                    /\ R.Sell_Signal[k] =>
                         (k > 1 /\ SellCondition(name, data, k)
                                /\ SellOpposite(name, data, k - 1))
                    /\ ~(R.Buy_Signal[k] /\ R.Sell_Signal[k])
               /\ ~R.Buy_Signal[1] /\ ~R.Sell_Signal[1]
               /\ \A k \in 1..(n - 1) :
                    /\ ~(R.Buy_Signal[k] /\ R.Buy_Signal[k + 1])
                    /\ ~(R.Sell_Signal[k] /\ R.Sell_Signal[k + 1])
          /\ name \in LevelStrategies =>
               \A k \in 1..n :
                    /\ R.Buy_Signal[k] <=> BuyCondition(name, data, k)
                    /\ R.Sell_Signal[k] <=> SellCondition(name, data, k)

\* a level-triggered buy signal true on two consecutive bars
C12_Witness ==
    /\ StrategySignals
    /\ strategy_name = "STOCHASTIC"
    /\ \E k \in 1..(NBars(R) - 1) : R.Buy_Signal[k] /\ R.Buy_Signal[k + 1]

\* an edge-triggered buy signal true at one bar only though its condition
\* holds at the next bar as well
C12_EdgeReached ==
    /\ StrategySignals
    /\ strategy_name = "RSI"
    /\ \E k \in 2..(NBars(R) - 1) :
          R.Buy_Signal[k] /\ BuyCondition("RSI", data, k + 1)

----------------------------------------------------------------------------
(* Properties of the Backtester instance *)

\* lines 161-166 as a function: the table of a backtest_strategy(t, name) run
AloneResult(t, name) == CalculateReturns(t, StrategyCallable(name))

\* lines 161-168 as a function: the metrics of a backtest_strategy(t, name) run
AloneMetrics(t, name) == PerformanceMetrics(AloneResult(t, name), name)

\* C13: initial_capital, commission and tax do not influence a run: positions,
\* returns and every metric are the cost-free function of the table and the
\* strategy alone, so two instances that differ in them agree on all results.
C13_ConfigIgnored ==
    /\ Returned => result = Some(AloneResult(data, strategy_name))
    /\ Done => metrics = Some(AloneMetrics(data, strategy_name))

\* a finished run of a non-default instance that traded and lost or won
C13_Witness ==
    /\ Done
    /\ config # DefaultConfig
    /\ M.total_trades > 0
    /\ M.total_return # Zero

----------------------------------------------------------------------------
(* Properties of backtest_all_strategies and compare_strategies *)

\* backtest_all_strategies has returned its mapping
AllReturned == pc \in {"all_returned", "compared"}

\* a strategy fails on a table when a column its lambdas read is missing
Failed(name, t) == RaisesKeyError(name, t)

\* what a strategy maps to: None when it fails, else its record when run alone
ExpectedEntry(name, t) ==
    IF Failed(name, t) THEN None ELSE Some(AloneMetrics(t, name))

\* the registered strategies that do not fail, in the order of the registry
Survivors(t) == SelectSeq(StrategyOrder, LAMBDA name : ~Failed(name, t))

\* C11: backtest_all_strategies isolates failures: whichever strategies fail,
\* every exception is taken by the handler and none is pending at the return;
\* the mapping returned has exactly one entry per registered strategy, None
\* for a failed strategy and otherwise the record of the strategy run alone;
\* compare_strategies keeps exactly the entries that are not None, the
\* zero-valued records among them.
C11_FailuresIsolated ==
    /\ (call = "backtest_all_strategies" /\ pc = "raised") =>
          ENABLED backtest_all_strategies_except
    /\ AllReturned =>
          /\ raised = "none"
          /\ Len(all_metrics) = Len(StrategyOrder)
          /\ \A j \in DOMAIN StrategyOrder :
                all_metrics[j] = <<StrategyOrder[j], ExpectedEntry(StrategyOrder[j], data)>>
    /\ pc = "compared" =>
          /\ comparison # None
          /\ Len(comparison[1]) = Len(Survivors(data))
          /\ \A j \in DOMAIN Survivors(data) :
                comparison[1][j] =
                    <<Survivors(data)[j], AloneMetrics(data, Survivors(data)[j])>>

\* a batch in which one strategy failed, one traded and one kept a record
\* without a single trade, compared afterwards
C11_Witness ==
    /\ pc = "compared"
    /\ \E j \in DOMAIN all_metrics : all_metrics[j][2] = None
    /\ \E j \in DOMAIN comparison[1] : comparison[1][j][2].total_trades = 0
    /\ \E j \in DOMAIN comparison[1] : comparison[1][j][2].total_trades > 0

\* a batch in which every strategy failed: the comparison is the empty frame
C11_AllFailed ==
    /\ pc = "compared"
    /\ \A j \in DOMAIN all_metrics : all_metrics[j][2] = None
    /\ comparison = Some(<<>>)

\* C14: runs share no state: no step of any sequence of backtest_strategy and
\* backtest_all_strategies calls alters the input table, and the table and the
\* metrics a run produces are those of the strategy run alone on that table,
\* whatever ran before and however often it is run again.
C14_RunsShareNoState ==
    [][/\ data' = data
       /\ pc' = "returned" => result' = Some(AloneResult(data, strategy_name'))
       /\ pc' = "done" => metrics' = Some(AloneMetrics(data, strategy_name'))]_vars

\* a run that traded, made after an earlier call on the same table returned
\* and, inside a batch, after another strategy was recorded
C14_Witness ==
    /\ calls > 0
    /\ call = "backtest_all_strategies"
    /\ Done
    /\ M.total_trades > 0
    /\ \E j \in DOMAIN all_metrics :
          all_metrics[j][2] # None /\ all_metrics[j][2][1].total_trades > 0

----------------------------------------------------------------------------
(* Implicit positivity of the equity *)

\* the property in exact arithmetic: every factor 1 + Returns[k] is 1 or a
\* ratio of two positive prices, so every product of them is positive
C15_ExactArithmetic ==
    (pc = "returned") =>
        \A k \in 2..NBars(R) :
            /\ Gt(Add(One, R.Returns[k]), Zero)
            /\ Gt(Add(One, R.Cumulative_Returns[k]), Zero)

\* C15: when every Close is strictly positive, at every bar after the first
\* 1 + Returns is strictly positive and so is the compounded equity;
\* total_return is strictly greater than -100%, the base 1 + total_return of
\* annualized_return is positive and the running maximum that divides the
\* drawdown is never 0.
C15_EquityStaysPositive ==
    (pc = "returned") =>
        /\ \A k \in 2..NBars(R) :
              /\ F64Positive(F64Add1(R.Returns[k]))
              /\ F64Positive(EquityOfF64(R.Returns)[k])
        /\ NBars(R) > 1 =>
              /\ TotalReturnF64(R) # F64MinusOne
              /\ F64Positive(AnnualizedBaseF64(R))
              /\ \A k \in DOMAIN RunningMaxF64(R) : F64Positive(RunningMaxF64(R)[k])

====
